---- MODULE Spec2Model ----
(***************************************************************************)
(* The Sankey rendering scripts of visual_autonomy: the DOMContentLoaded   *)
(* handler of each variant (sankey-diagram.js holds two, the per-theme     *)
(* script is the third), from the library checks over the fetch, the node  *)
(* and link derivation, the layout call and the rendering to the drag      *)
(* handlers.  One behaviour is one page load of one variant.               *)
(*                                                                         *)
(* A JavaScript value that may be undefined is a sequence: <<>> is         *)
(* undefined and <<v>> is the number v.  Coordinates are integers.         *)
(***************************************************************************)
EXTENDS Integers, Sequences, FiniteSets

VARIABLES variant, d3Loaded, sankeyLoaded, response, pc, data, diags, cur,
          errorText, pending, fetchCount, dragCount

vars == <<variant, d3Loaded, sankeyLoaded, response, pc, data, diags, cur,
          errorText, pending, fetchCount, dragCount>>

\* ------------------------------------------------------------------ bounds
MaxRecs == 2
MaxDrags == 2

\* ------------------------------------------------- constants of the scripts
SvgHeight == 600
MarginTop == 10
MarginBottom == 10
ExtentTop == 1
ExtentBottomInset == 6

height == SvgHeight - MarginTop - MarginBottom

\* --------------------------------------------------------------- inputs
Variants == {1, 2, 3}
Names == {"A", "B", "C"}
\* flow_data.json describes an acyclic flow: sources precede targets.
Pairs == {<<"A", "B">>, <<"A", "C">>, <<"B", "C">>}
Values == {1, 2}
Fundings == {<<>>, <<3>>}
Themes == {"T1", "T2"}
PointerVals == {-700, 40, 700}

FlowRecords ==
    [source : Names, target : Names, value : Values,
     source_funding : Fundings, target_funding : Fundings,
     source_theme : Themes]

DagRecords == {r \in FlowRecords : <<r.source, r.target>> \in Pairs}

RECURSIVE SeqsUpTo(_, _)
SeqsUpTo(S, n) ==
    IF n = 0 THEN {<<>>}
    ELSE LET shorter == SeqsUpTo(S, n - 1)
         IN shorter \cup {Append(s, x) : s \in {t \in shorter : Len(t) = n - 1}, x \in S}

\* ------------------------------------------------------------- helpers
\* Math.min, Math.max
Min(a, b) == IF a < b THEN a ELSE b
Max(a, b) == IF a > b THEN a ELSE b

\* a list that keeps duplicates, where the code uses a Set
SetAddKeepsDuplicates(s, x) == Append(s, x)

\* Set.prototype.add on a Set kept in insertion order
SetAdd(s, x) == IF \E i \in 1..Len(s) : s[i] = x THEN s ELSE Append(s, x)

\* The first index whose flag holds, 0 when none does
FirstTrue(flags) ==
    IF \E i \in 1..Len(flags) : flags[i]
    THEN CHOOSE i \in 1..Len(flags) : flags[i] /\ \A j \in 1..(i - 1) : ~flags[j]
    ELSE 0

\* nodes.find(n => n.name === name), as an index: 0 when absent (undefined)
IndexOfName(nodes, name) ==
    FirstTrue([i \in 1..Len(nodes) |-> nodes[i].name = name])

\* ------------------------------------------- node and link derivation
\* nodeNames: every record adds its source, then its target
RECURSIVE NodeNamesFrom(_, _)
NodeNamesFrom(acc, recs) ==
    IF recs = <<>> THEN acc
    ELSE NodeNamesFrom(SetAdd(SetAdd(acc, Head(recs).source), Head(recs).target),
                       Tail(recs))

NodeNames(recs) == NodeNamesFrom(<<>>, recs)

\* Array.from(nodeNames).map(name => ({name, fundingIn: 0, fundingOut: 0, ...}))
NewNode(name) ==
    [name |-> name, fundingIn |-> 0, fundingOut |-> 0, targetFunding |-> <<0>>]

MakeNodes(recs) ==
    LET names == NodeNames(recs)
    IN [i \in 1..Len(names) |-> NewNode(names[i])]

\* "=" where the code has "+=": the last record's value replaces the total
AddFundingAssigns(nodes, d, v) ==
    [i \in 1..Len(nodes) |->
        [nodes[i] EXCEPT
           !.fundingOut = IF nodes[i].name = d.source THEN d.value ELSE @,
           !.fundingIn = IF nodes[i].name = d.target THEN d.value ELSE @,
           !.targetFunding = IF v = 3 /\ nodes[i].name = d.target
                             THEN d.target_funding ELSE @]]

\* One iteration of the funding forEach: nodes.find by name, then +=.
\* The per-theme script (v = 3) also assigns targetFunding on the target.
AddFunding(nodes, d, v) ==
    LET si == IndexOfName(nodes, d.source)
        ti == IndexOfName(nodes, d.target)
        withOut == IF si = 0 THEN nodes
                   ELSE [nodes EXCEPT ![si].fundingOut = @ + d.value]
    IN IF ti = 0 THEN withOut
       ELSE IF v = 3
            THEN [withOut EXCEPT ![ti].fundingIn = @ + d.value,
                                 ![ti].targetFunding = d.target_funding]
            ELSE [withOut EXCEPT ![ti].fundingIn = @ + d.value]

RECURSIVE Aggregate(_, _, _)
Aggregate(nodes, recs, v) ==
    IF recs = <<>> THEN nodes
    ELSE Aggregate(AddFunding(nodes, Head(recs), v), Tail(recs), v)

\* new Map(nodes.map((node, index) => [node.name, index])).get(name);
\* indices count from 1 here, 0 stands for undefined
NodeMapGet(nodes, name) == IndexOfName(nodes, name)

\* d.source_funding || 0
OrZero(o) == IF o = <<>> THEN <<0>> ELSE o

\* both ends looked up under d.source
MakeLinkSourceTwice(nodes, d, v) ==
    [source |-> IndexOfName(nodes, d.source),
     target |-> IndexOfName(nodes, d.source),
     value |-> d.value,
     source_funding |-> IF v = 3 THEN OrZero(d.source_funding) ELSE d.source_funding,
     target_funding |-> IF v = 3 THEN OrZero(d.target_funding) ELSE d.target_funding]

MakeLink(nodes, d, v) ==
    [source |-> NodeMapGet(nodes, d.source),
     target |-> NodeMapGet(nodes, d.target),
     value |-> d.value,
     source_funding |-> IF v = 3 THEN OrZero(d.source_funding) ELSE d.source_funding,
     target_funding |-> IF v = 3 THEN OrZero(d.target_funding) ELSE d.target_funding]

MakeLinks(nodes, recs, v) == [i \in 1..Len(recs) |-> MakeLink(nodes, recs[i], v)]

\* themes = Array.from(new Set(data.map(d => d.source_theme)))
RECURSIVE ThemesFrom(_, _)
ThemesFrom(acc, recs) ==
    IF recs = <<>> THEN acc
    ELSE ThemesFrom(SetAdd(acc, Head(recs).source_theme), Tail(recs))

ThemesOf(recs) == ThemesFrom(<<>>, recs)

\* themeData = data.filter(d => d.source_theme === theme)
ThemeData(recs, theme) == SelectSeq(recs, LAMBDA d : d.source_theme = theme)

\* -------------------------------------------------------------- state
\* One diagram: the whole chart (variants 1, 2) or one theme's (variant 3).
\* nodes, links: the derived lists.  y0, y1, linkY: the geometry the layout
\* keeps in the graph.  pathD, nodeTf: what is drawn (the "d" of each link
\* path, the translate of each node group).  inBarH, outBarH: the heights
\* of the two bars of each node of the per-theme variant, as fractions.
NewDiag(theme, recs) ==
    [theme |-> theme, recs |-> recs, stage |-> "new",
     nodes |-> <<>>, links |-> <<>>, aggregated |-> FALSE, linked |-> FALSE,
     layoutCalls |-> 0, updateCalls |-> 0, lay |-> 0,
     y0 |-> <<>>, y1 |-> <<>>, linkY |-> <<>>,
     svg |-> FALSE, pathD |-> <<>>, nodeTf |-> <<>>, dragAttached |-> FALSE,
     bars |-> FALSE, labels |-> FALSE, nodeTitles |-> 0, linkTitles |-> 0,
     legend |-> FALSE, inBarH |-> <<>>, outBarH |-> <<>>]

\* The diagrams the then-callback builds: one, or one per theme in themes order.
DiagramsOf(v, recs) ==
    IF v = 3
    THEN LET themes == ThemesOf(recs)
         IN [k \in 1..Len(themes) |-> NewDiag(themes[k], ThemeData(recs, themes[k]))]
    ELSE <<NewDiag("", recs)>>

NoResponse == [ok |-> FALSE, body |-> <<>>, message |-> "Failed to fetch"]

Responses(domain) ==
    {NoResponse} \cup
    {[ok |-> TRUE, body |-> b, message |-> ""] : b \in SeqsUpTo(domain, MaxRecs)}

\* The records the drag behaviours start from: one value, and the two funding
\* fields given or omitted together.
DragRecords ==
    {r \in DagRecords : r.value = 1 /\ r.source_funding = r.target_funding}

\* A page load: the variant, which libraries the page loaded, and what the
\* fetch will answer.  Without both libraries no fetch is made, so its answer
\* is left out; variants 1 and 2 never read source_theme, so it is fixed there.
InitWith(domain) ==
    /\ variant \in Variants
    /\ d3Loaded \in BOOLEAN
    /\ sankeyLoaded \in BOOLEAN
    /\ (sankeyLoaded => d3Loaded)
    /\ response \in Responses(domain)
    /\ (~sankeyLoaded => response = NoResponse)
    /\ (variant # 3 =>
          \A i \in 1..Len(response.body) : response.body[i].source_theme = "T1")
    /\ pc = "init"
    /\ data = <<>>
    /\ diags = <<>>
    /\ cur = 0
    /\ errorText = <<>>
    /\ pending = ""
    /\ fetchCount = 0
    /\ dragCount = 0

Init == InitWith(DragRecords)

\* The page loads the derivation claims are checked on: every record of
\* DagRecords, and no drag.
InitLoad == InitWith(DagRecords)

\* ------------------------------------------------------ library checks
\* the plugin checked before the library
LibraryCheckPluginFirst(d3, sk) ==
    IF ~sk THEN "D3 Sankey plugin is not loaded"
    ELSE IF ~d3 THEN "D3 library is not loaded"
    ELSE ""

\* The message of the first failing typeof check, "" when both pass.
LibraryCheck(d3, sk) ==
    IF ~d3 THEN "D3 library is not loaded"
    ELSE IF ~sk THEN "D3 Sankey plugin is not loaded"
    ELSE ""

\* catch (error): textContent = 'Error: ' + error.message
OuterCatchText(msg) == <<"Error: ", msg>>

\* the rejection reported under the outer catch's prefix
FetchCatchTextOuterPrefix(msg) == <<"Error: ", msg>>

\* .catch(function(error)): textContent = 'Error loading data: ' + error.message
FetchCatchText(msg) == <<"Error loading data: ", msg>>

DOMContentLoaded ==
    /\ pc = "init"
    /\ LET msg == LibraryCheck(d3Loaded, sankeyLoaded)
       IN IF msg # ""
          THEN /\ errorText' = OuterCatchText(msg)
               /\ pc' = "idle"
               /\ fetchCount' = fetchCount
          ELSE /\ fetchCount' = fetchCount + 1
               /\ pc' = "fetching"
               /\ errorText' = errorText
    /\ UNCHANGED <<variant, d3Loaded, sankeyLoaded, response, data, diags, cur,
                   pending, dragCount>>

FetchResolve ==
    /\ pc = "fetching"
    /\ response.ok
    /\ data' = response.body
    /\ diags' = DiagramsOf(variant, response.body)
    /\ cur' = 1
    /\ pc' = IF DiagramsOf(variant, response.body) = <<>> THEN "idle" ELSE "callback"
    /\ UNCHANGED <<variant, d3Loaded, sankeyLoaded, response, errorText, pending,
                   fetchCount, dragCount>>

FetchReject ==
    /\ pc = "fetching"
    /\ ~response.ok
    /\ pending' = response.message
    /\ pc' = "rejected"
    /\ UNCHANGED <<variant, d3Loaded, sankeyLoaded, response, data, diags, cur,
                   errorText, fetchCount, dragCount>>

FetchCatch ==
    /\ pc = "rejected"
    /\ errorText' = FetchCatchText(pending)
    /\ pc' = "idle"
    /\ UNCHANGED <<variant, d3Loaded, sankeyLoaded, response, data, diags, cur,
                   pending, fetchCount, dragCount>>

\* ------------------------------------------------- the then-callback
AppendSvg ==
    /\ pc = "callback"
    /\ diags[cur].stage = "new"
    /\ diags' = [diags EXCEPT ![cur].svg = TRUE, ![cur].stage = "svg"]
    /\ UNCHANGED <<variant, d3Loaded, sankeyLoaded, response, pc, data, cur,
                   errorText, pending, fetchCount, dragCount>>

CreateNodes ==
    /\ pc = "callback"
    /\ diags[cur].stage = "svg"
    /\ diags' = [diags EXCEPT ![cur].nodes = MakeNodes(diags[cur].recs),
                              ![cur].stage = "nodes"]
    /\ UNCHANGED <<variant, d3Loaded, sankeyLoaded, response, pc, data, cur,
                   errorText, pending, fetchCount, dragCount>>

AggregateFunding ==
    /\ pc = "callback"
    /\ diags[cur].stage = "nodes"
    /\ diags' = [diags EXCEPT
                   ![cur].nodes = Aggregate(diags[cur].nodes, diags[cur].recs, variant),
                   ![cur].aggregated = TRUE,
                   ![cur].stage = "aggregated"]
    /\ UNCHANGED <<variant, d3Loaded, sankeyLoaded, response, pc, data, cur,
                   errorText, pending, fetchCount, dragCount>>

BuildLinks ==
    /\ pc = "callback"
    /\ diags[cur].stage = "aggregated"
    /\ diags' = [diags EXCEPT
                   ![cur].links = MakeLinks(diags[cur].nodes, diags[cur].recs, variant),
                   ![cur].linked = TRUE,
                   ![cur].stage = "links"]
    /\ UNCHANGED <<variant, d3Loaded, sankeyLoaded, response, pc, data, cur,
                   errorText, pending, fetchCount, dragCount>>

\* ------------------------------------------------------------ layout
\* The layout routine is the library's.  It places every node inside the
\* extent [ExtentTop, height - ExtentBottomInset] with a positive height; two
\* placements stand for it: a tight stack and one that fills the extent.
Layouts == {1, 2}
LayoutY0(lay, i) == ExtentTop + (i - 1) * (IF lay = 1 THEN 100 ELSE 190)
LayoutY1(lay, i) == LayoutY0(lay, i) + (IF lay = 1 THEN 90 ELSE 190)

\* computeLinkBreadths: a link's ends follow its nodes' y0
LinkBreadths(dg) ==
    [i \in 1..Len(dg.links) |->
        <<dg.y0[dg.links[i].source], dg.y0[dg.links[i].target]>>]

\* graph = sankey({nodes, links})
SankeyLayout(dg, lay) ==
    LET placed == [dg EXCEPT !.lay = lay,
                             !.y0 = [i \in 1..Len(dg.nodes) |-> LayoutY0(lay, i)],
                             !.y1 = [i \in 1..Len(dg.nodes) |-> LayoutY1(lay, i)]]
    IN [placed EXCEPT !.linkY = LinkBreadths(placed),
                      !.layoutCalls = @ + 1]

\* sankey.update(graph)
SankeyUpdate(dg) ==
    [dg EXCEPT !.linkY = LinkBreadths(dg), !.updateCalls = @ + 1]

LayoutCall ==
    /\ pc = "callback"
    /\ diags[cur].stage = "links"
    /\ \E lay \in Layouts :
         diags' = [diags EXCEPT ![cur] = [SankeyLayout(diags[cur], lay)
                                            EXCEPT !.stage = "layout"]]
    /\ UNCHANGED <<variant, d3Loaded, sankeyLoaded, response, pc, data, cur,
                   errorText, pending, fetchCount, dragCount>>

\* ------------------------------------------------------------ render
\* The first element whose title text throws (toFixed of undefined), 0 when
\* none does: a link without source_funding or target_funding in variants
\* 1 and 2, a node whose targetFunding is undefined in variant 3.
FirstThrow(v, dg) ==
    IF v = 3
    THEN FirstTrue([i \in 1..Len(dg.nodes) |-> dg.nodes[i].targetFunding = <<>>])
    ELSE FirstTrue([i \in 1..Len(dg.links) |->
                       \/ dg.links[i].source_funding = <<>>
                       \/ dg.links[i].target_funding = <<>>])

\* A bar height is a fraction [num, den]: (a / b) * baseHeight is
\* [num |-> a * baseHeight, den |-> b], and den = 0 is a division by zero.
\* isFinalNode: no link leaves node n
IsFinalNode(dg, n) == \A i \in 1..Len(dg.links) : dg.links[i].source # n

\* the in-bar without its fundingOut > fundingIn test
InBarHeightAlwaysDivides(fIn, fOut, baseHeight) ==
    [num |-> fIn * baseHeight, den |-> fOut]

\* the in-bar's height attribute (per-theme variant)
InBarHeight(fIn, fOut, baseHeight) ==
    IF fOut > fIn THEN [num |-> fIn * baseHeight, den |-> fOut]
    ELSE [num |-> baseHeight, den |-> 1]

\* the out-bar's height attribute (per-theme variant)
OutBarHeight(final, fIn, fOut, baseHeight) ==
    IF final THEN [num |-> 0, den |-> 1]
    ELSE IF fOut > fIn THEN [num |-> baseHeight, den |-> 1]
    ELSE [num |-> fOut * baseHeight, den |-> fIn]

\* What the render statements leave drawn, in statement order: link paths,
\* node groups with the drag handler, bars, labels, node titles, link titles,
\* and in variant 3 the legend.
Rendered(v, dg) ==
    LET bad == FirstThrow(v, dg)
        shapes == [dg EXCEPT !.pathD = dg.linkY, !.nodeTf = dg.y0,
                             !.dragAttached = TRUE, !.bars = TRUE, !.labels = TRUE]
    IN IF v = 3
       THEN [shapes EXCEPT
               !.inBarH = [n \in 1..Len(dg.nodes) |->
                             InBarHeight(dg.nodes[n].fundingIn, dg.nodes[n].fundingOut,
                                         dg.y1[n] - dg.y0[n])],
               !.outBarH = [n \in 1..Len(dg.nodes) |->
                              OutBarHeight(IsFinalNode(dg, n), dg.nodes[n].fundingIn,
                                           dg.nodes[n].fundingOut, dg.y1[n] - dg.y0[n])],
               !.nodeTitles = IF bad = 0 THEN Len(dg.nodes) ELSE bad - 1,
               !.linkTitles = IF bad = 0 THEN Len(dg.links) ELSE 0,
               !.legend = (bad = 0),
               !.stage = IF bad = 0 THEN "rendered" ELSE "threw"]
       ELSE [shapes EXCEPT
               !.nodeTitles = Len(dg.nodes),
               !.linkTitles = IF bad = 0 THEN Len(dg.links) ELSE bad - 1,
               !.stage = IF bad = 0 THEN "rendered" ELSE "threw"]

ToFixedError == "Cannot read properties of undefined (reading 'toFixed')"

Render ==
    /\ pc = "callback"
    /\ diags[cur].stage = "layout"
    /\ diags' = [diags EXCEPT ![cur] = Rendered(variant, diags[cur])]
    /\ IF FirstThrow(variant, diags[cur]) # 0
       THEN /\ pc' = "rejected"
            /\ pending' = ToFixedError
            /\ cur' = cur
       ELSE /\ pc' = IF cur < Len(diags) THEN "callback" ELSE "idle"
            /\ cur' = IF cur < Len(diags) THEN cur + 1 ELSE cur
            /\ pending' = pending
    /\ UNCHANGED <<variant, d3Loaded, sankeyLoaded, response, data, errorText,
                   fetchCount, dragCount>>

\* -------------------------------------------------------------- drag
\* d.y0 = Math.max(0, Math.min(height - (d.y1 - d.y0), event.y)), with
\* d.y0 + event.dy for event.y in variant 2; p is event.y or event.dy.
DragY0(v, y0, y1, p) ==
    Max(0, Min(height - (y1 - y0), IF v = 2 THEN y0 + p ELSE p))

\* d.y1 = d.y0 + (d.y1 - d.y0), read after d.y0 has been assigned
DragY1(y0now, y1) == y0now + (y1 - y0now)

\* a drag handler that moves the node and leaves the drawing as it was
RedrawNothing(v, dg) == dg

\* link.attr("d", ...), and in variants 1 and 2 node.attr("transform", ...)
Redraw(v, dg) ==
    IF v = 3 THEN [dg EXCEPT !.pathD = dg.linkY]
    ELSE [dg EXCEPT !.pathD = dg.linkY, !.nodeTf = dg.y0]

\* the full layout run again where the code updates the retained graph
DragLayoutFull(dg) == SankeyLayout(dg, dg.lay)

\* the layout step of a drag
DragLayout(dg) == SankeyUpdate(dg)

\* dragmove / the "drag" handler on node n of diagram dg
Dragmove(v, dg, n, p) ==
    LET newY0 == DragY0(v, dg.y0[n], dg.y1[n], p)
        moved == [dg EXCEPT !.y0[n] = newY0, !.y1[n] = DragY1(newY0, dg.y1[n])]
        own == IF v = 2 THEN moved ELSE [moved EXCEPT !.nodeTf[n] = newY0]
    IN Redraw(v, DragLayout(own))

Drag ==
    /\ pc = "idle"
    /\ dragCount < MaxDrags
    /\ \E k \in 1..Len(diags) :
         /\ diags[k].dragAttached
         /\ \E n \in 1..Len(diags[k].nodes), p \in PointerVals :
              diags' = [diags EXCEPT ![k] = Dragmove(variant, diags[k], n, p)]
    /\ dragCount' = dragCount + 1
    /\ UNCHANGED <<variant, d3Loaded, sankeyLoaded, response, pc, data, cur,
                   errorText, pending, fetchCount>>

Next ==
    \/ DOMContentLoaded
    \/ FetchResolve
    \/ FetchReject
    \/ FetchCatch
    \/ AppendSvg
    \/ CreateNodes
    \/ AggregateFunding
    \/ BuildLinks
    \/ LayoutCall
    \/ Render
    \/ Drag

Spec == Init /\ [][Next]_vars

NextLoad ==
    \/ DOMContentLoaded
    \/ FetchResolve
    \/ FetchReject
    \/ FetchCatch
    \/ AppendSvg
    \/ CreateNodes
    \/ AggregateFunding
    \/ BuildLinks
    \/ LayoutCall
    \/ Render

SpecLoad == InitLoad /\ [][NextLoad]_vars

\* ------------------------------------------------------------ claims
RECURSIVE SumValues(_)
SumValues(recs) == IF recs = <<>> THEN 0 ELSE Head(recs).value + SumValues(Tail(recs))

ValueInto(recs, name) == SumValues(SelectSeq(recs, LAMBDA d : d.target = name))
ValueOutOf(recs, name) == SumValues(SelectSeq(recs, LAMBDA d : d.source = name))

\* C1: once the aggregation pass has run over a diagram's records, every node's
\* fundingIn is the sum of value over the records whose target is its name and
\* its fundingOut the sum over the records whose source is its name; duplicate
\* records each count, and a node that is never a target (source) has 0.
C1_FundingSums ==
    \A k \in 1..Len(diags) :
        diags[k].aggregated =>
            \A i \in 1..Len(diags[k].nodes) :
                /\ diags[k].nodes[i].fundingIn =
                      ValueInto(diags[k].recs, diags[k].nodes[i].name)
                /\ diags[k].nodes[i].fundingOut =
                      ValueOutOf(diags[k].recs, diags[k].nodes[i].name)

\* a diagram aggregated over a record and its duplicate: the target's total
\* counts both, and the source is never a target
C1_Witness ==
    \E k \in 1..Len(diags) :
        /\ diags[k].aggregated
        /\ Len(diags[k].recs) = 2
        /\ diags[k].recs[1] = diags[k].recs[2]
        /\ diags[k].recs[1].value = 2
        /\ \E i, j \in 1..Len(diags[k].nodes) :
              /\ diags[k].nodes[i].fundingIn = 4
              /\ diags[k].nodes[j].fundingIn = 0
              /\ diags[k].nodes[j].fundingOut = 4

NamesIn(recs) ==
    {recs[i].source : i \in 1..Len(recs)} \cup {recs[i].target : i \in 1..Len(recs)}

NodesMade(dg) == dg.stage \notin {"new", "svg"}

\* C2: the node list holds exactly one node for each distinct name that
\* occurs as a source or a target of a record and no other node; no two nodes
\* share a name, and the list is empty only when there are no records.
C2_OneNodePerName ==
    \A k \in 1..Len(diags) :
        NodesMade(diags[k]) =>
            /\ {diags[k].nodes[i].name : i \in 1..Len(diags[k].nodes)} =
                  NamesIn(diags[k].recs)
            /\ \A i, j \in 1..Len(diags[k].nodes) :
                  diags[k].nodes[i].name = diags[k].nodes[j].name => i = j
            /\ (Len(diags[k].nodes) = 0 <=> diags[k].recs = <<>>)

\* three nodes from two records that share the name B
C2_Witness ==
    \E k \in 1..Len(diags) :
        /\ NodesMade(diags[k])
        /\ Len(diags[k].recs) = 2
        /\ diags[k].recs[1].target = diags[k].recs[2].source
        /\ Len(diags[k].nodes) = 3

\* C3: the link list has one link per record, in record order: link i has
\* record i's value, its source and target are indices of the node list, and
\* the nodes there carry record i's source and target names.
C3_LinkPerRecord ==
    \A k \in 1..Len(diags) :
        diags[k].linked =>
            /\ Len(diags[k].links) = Len(diags[k].recs)
            /\ \A i \in 1..Len(diags[k].links) :
                  /\ diags[k].links[i].value = diags[k].recs[i].value
                  /\ diags[k].links[i].source \in 1..Len(diags[k].nodes)
                  /\ diags[k].links[i].target \in 1..Len(diags[k].nodes)
                  /\ diags[k].nodes[diags[k].links[i].source].name =
                        diags[k].recs[i].source
                  /\ diags[k].nodes[diags[k].links[i].target].name =
                        diags[k].recs[i].target

\* two links of different values between different node pairs
C3_Witness ==
    \E k \in 1..Len(diags) :
        /\ diags[k].linked
        /\ Len(diags[k].links) = 2
        /\ diags[k].links[1].value # diags[k].links[2].value
        /\ diags[k].links[1].target # diags[k].links[2].target
        /\ diags[k].links[1].source # diags[k].links[2].source

RECURSIVE UpdateCalls(_)
UpdateCalls(ds) == IF ds = <<>> THEN 0 ELSE Head(ds).updateCalls + UpdateCalls(Tail(ds))

\* C4: every drag event runs sankey.update on the retained graph and then
\* redraws, inside its own handling: after any sequence of drag events there
\* has been one update per event, every drawn link path is the graph's
\* current link geometry, which follows the nodes' current y0, and every
\* node that was dragged is drawn at its current y0.
C4_DragUpdatesAndRedraws ==
    /\ UpdateCalls(diags) = dragCount
    /\ \A k \in 1..Len(diags) :
          diags[k].dragAttached =>
              /\ diags[k].linkY = LinkBreadths(diags[k])
              /\ diags[k].pathD = diags[k].linkY
              /\ diags[k].nodeTf = diags[k].y0

\* two drag events have moved a node that has a link away from where the
\* layout put it
C4_Witness ==
    /\ dragCount = 2
    /\ \E k \in 1..Len(diags) :
          /\ diags[k].updateCalls = 2
          /\ \E i \in 1..Len(diags[k].links) :
                diags[k].y0[diags[k].links[i].source] #
                    LayoutY0(diags[k].lay, diags[k].links[i].source)

\* C5: with d3 or d3.sankey undefined when DOMContentLoaded fires, the handler
\* writes 'Error: ' and the message to the error element, the d3 check first
\* (no d3: 'D3 library is not loaded'), issues no fetch and appends nothing to
\* the chart.
C5_MissingLibrary ==
    (~d3Loaded \/ ~sankeyLoaded) =>
        /\ fetchCount = 0
        /\ diags = <<>>
        /\ (pc # "init" =>
               errorText = <<"Error: ",
                             IF ~d3Loaded THEN "D3 library is not loaded"
                             ELSE "D3 Sankey plugin is not loaded">>)

\* the handler has run on a page with neither library
C5_Witness ==
    /\ ~d3Loaded
    /\ ~sankeyLoaded
    /\ pc = "idle"
    /\ errorText = <<"Error: ", "D3 library is not loaded">>

\* C6: when the fetch of flow_data.json is rejected, the rejection handler
\* writes 'Error loading data: ' and the error's message to the error element
\* and the chart is as it was: no svg, node, link or legend element, no layout
\* call.
C6_FetchRejected ==
    (fetchCount = 1 /\ ~response.ok) =>
        /\ diags = <<>>
        /\ (pc = "idle" => errorText = <<"Error loading data: ", response.message>>)
        /\ (pc # "idle" => errorText = <<>>)

\* the rejection handler has run
C6_Witness ==
    /\ fetchCount = 1
    /\ ~response.ok
    /\ pc = "idle"
    /\ errorText # <<>>

\* C7: the error element is written only when a library check fails or the
\* fetch is rejected: with both libraries present and the fetch resolved with
\* an array of flow records, no error text is written.
C7_ErrorOnlyLibraryOrFetch ==
    errorText # <<>> => (~d3Loaded \/ ~sankeyLoaded \/ ~response.ok)

\* What the render statements draw from the layout's positions (the empty
\* svg container is appended as soon as the callback starts).
Drawn(dg) ==
    \/ dg.pathD # <<>>
    \/ dg.nodeTf # <<>>
    \/ dg.dragAttached
    \/ dg.bars
    \/ dg.labels
    \/ dg.nodeTitles > 0
    \/ dg.linkTitles > 0
    \/ dg.legend

C9_HeightKept ==
    \A k \in 1..Len(diags) :
        \A n \in 1..Len(diags[k].y0) :
            diags[k].y1[n] - diags[k].y0[n] =
                LayoutY1(diags[k].lay, n) - LayoutY0(diags[k].lay, n)

\* C10: after any sequence of drag events every node satisfies
\* 0 <= y0 <= y1 <= height, height the chart's inner height.
C10_InsideChart ==
    \A k \in 1..Len(diags) :
        \A n \in 1..Len(diags[k].y0) :
            /\ 0 <= diags[k].y0[n]
            /\ diags[k].y0[n] <= diags[k].y1[n]
            /\ diags[k].y1[n] <= height

OmitsFunding(recs) ==
    \A i \in 1..Len(recs) :
        recs[i].source_funding = <<>> /\ recs[i].target_funding = <<>>

\* C11: source_funding and target_funding are optional: when every record of
\* the array carries only source, target and value, the render pass raises
\* no exception and runs to completion, every node, link and title drawn.
C11_OmittedFundingRenders ==
    (response.ok /\ OmitsFunding(response.body)) =>
        /\ \A k \in 1..Len(diags) : diags[k].stage # "threw"
        /\ (pc = "idle" /\ fetchCount = 1 =>
               \A k \in 1..Len(diags) :
                   /\ diags[k].stage = "rendered"
                   /\ Len(diags[k].pathD) = Len(diags[k].links)
                   /\ Len(diags[k].nodeTf) = Len(diags[k].nodes)
                   /\ diags[k].nodeTitles = Len(diags[k].nodes)
                   /\ diags[k].linkTitles = Len(diags[k].links))

\* the records of one theme, from the whole array
OfTheme(recs, theme) == SelectSeq(recs, LAMBDA d : d.source_theme = theme)

\* C12: in the per-theme variant the records are partitioned by source_theme:
\* one diagram is built per distinct source_theme, every record is drawn in
\* exactly one diagram, that of its own theme, and each diagram's nodes,
\* links and funding totals come from that theme's records only, a name that
\* occurs in two themes being a node of its own in each.
C12_ThemePartition ==
    (variant = 3 /\ pc = "idle" /\ fetchCount = 1 /\ response.ok) =>
        /\ Len(diags) = Cardinality({data[i].source_theme : i \in 1..Len(data)})
        /\ \A k, j \in 1..Len(diags) : diags[k].theme = diags[j].theme => k = j
        /\ \A i \in 1..Len(data) :
              \E k \in 1..Len(diags) : diags[k].theme = data[i].source_theme
        /\ \A k \in 1..Len(diags) :
              /\ diags[k].svg
              /\ Len(diags[k].pathD) = Len(OfTheme(data, diags[k].theme))
              /\ Len(diags[k].links) = Len(OfTheme(data, diags[k].theme))
              /\ {diags[k].nodes[n].name : n \in 1..Len(diags[k].nodes)} =
                    NamesIn(OfTheme(data, diags[k].theme))
              /\ \A n \in 1..Len(diags[k].nodes) :
                    /\ diags[k].nodes[n].fundingIn =
                          ValueInto(OfTheme(data, diags[k].theme),
                                    diags[k].nodes[n].name)
                    /\ diags[k].nodes[n].fundingOut =
                          ValueOutOf(OfTheme(data, diags[k].theme),
                                     diags[k].nodes[n].name)

\* no record of recs has name as its source
NoOutgoing(recs, name) == \A i \in 1..Len(recs) : recs[i].source # name

\* h = baseHeight * min(1, a / b), min(1, a / 0) being 1
IsClampedShare(h, a, b, baseHeight) ==
    IF b = 0 \/ a >= b THEN h.num = baseHeight * h.den
    ELSE h.num * b = a * baseHeight * h.den

\* C13: in the per-theme variant, with strictly positive values, no bar
\* height divides by zero; the in-bar is baseHeight * min(1, fundingIn /
\* fundingOut); the out-bar is 0 for a final node (no outgoing link) and
\* baseHeight * min(1, fundingOut / fundingIn) otherwise; both lie in
\* [0, baseHeight] and, for a non-final node, the larger is baseHeight.
C13_BarHeights ==
    \A k \in 1..Len(diags) :
        (variant = 3 /\ diags[k].bars) =>
            /\ Len(diags[k].inBarH) = Len(diags[k].nodes)
            /\ Len(diags[k].outBarH) = Len(diags[k].nodes)
            /\ \A n \in 1..Len(diags[k].nodes) :
                  LET baseHeight == diags[k].y1[n] - diags[k].y0[n]
                      fIn == diags[k].nodes[n].fundingIn
                      fOut == diags[k].nodes[n].fundingOut
                      final == NoOutgoing(diags[k].recs, diags[k].nodes[n].name)
                      inH == diags[k].inBarH[n]
                      outH == diags[k].outBarH[n]
                  IN /\ inH.den > 0
                     /\ outH.den > 0
                     /\ IsClampedShare(inH, fIn, fOut, baseHeight)
                     /\ (final => outH.num = 0)
                     /\ (~final => IsClampedShare(outH, fOut, fIn, baseHeight))
                     /\ 0 <= inH.num
                     /\ inH.num <= baseHeight * inH.den
                     /\ 0 <= outH.num
                     /\ outH.num <= baseHeight * outH.den
                     /\ (~final => \/ inH.num = baseHeight * inH.den
                                   \/ outH.num = baseHeight * outH.den)

\* a diagram drawn with a node that passes on more than it receives (its
\* in-bar a proper share of the node) next to a final node
C13_Witness ==
    /\ variant = 3
    /\ \E k \in 1..Len(diags) :
          /\ diags[k].bars
          /\ \E n, m \in 1..Len(diags[k].nodes) :
                /\ diags[k].nodes[n].fundingIn = 1
                /\ diags[k].nodes[n].fundingOut = 2
                /\ diags[k].inBarH[n].num * 2 =
                      (diags[k].y1[n] - diags[k].y0[n]) * diags[k].inBarH[n].den
                /\ diags[k].outBarH[n].num =
                      (diags[k].y1[n] - diags[k].y0[n]) * diags[k].outBarH[n].den
                /\ NoOutgoing(diags[k].recs, diags[k].nodes[m].name)
                /\ diags[k].outBarH[m].num = 0

====
